---- MODULE Spec2Model ----
(***************************************************************************)
(* A model of alibi/utils/gradients.py and alibi/utils/wrappers.py.        *)
(*                                                                         *)
(* Numbers are exact rationals [n |-> numerator, d |-> denominator]; the   *)
(* numpy arrays of the code are sequences of rows (a batch, already        *)
(* flattened to N x D) or flat sequences with an explicit shape.  numpy's  *)
(* float64 rounding is not modelled: every statement about values below    *)
(* is a statement about the exact arithmetic the code writes down.         *)
(***************************************************************************)
EXTENDS Integers, Sequences, FiniteSets, TLC

VARIABLES
    blackbox_wrappers,    \* wrappers.py: the registry dict, name -> callable or None
    numerical_gradients,  \* gradients.py: the registry dict, name -> list of callables
    attrs,                \* the attributes the decorators set on the callables
    lastReg,              \* history: per name, the callable of the last call of register_wrapper that returned
    predictors,           \* the Predictor objects constructed so far
    call,                 \* the last operation called and its arguments
    ret,                  \* what the last operation returned or raised
    calls                 \* the invocations of callbacks made by the last operation, in order

vars == <<blackbox_wrappers, numerical_gradients, attrs, lastReg, predictors, call, ret, calls>>

-----------------------------------------------------------------------------
(* Bounds of the model.                                                    *)

\* a batch has at most MaxCells = N * D cells
MaxCells == 4
\* a prediction function has at most MaxP output classes
MaxP == 2
\* each list of numerical_gradients holds at most MaxGrads callables
MaxGrads == 2
\* at most MaxPredictors Predictor objects are constructed
MaxPredictors == 2

None == "None"

-----------------------------------------------------------------------------
(* Exact arithmetic standing for the float arithmetic of numpy.            *)

Abs(x) == IF x < 0 THEN -x ELSE x

RECURSIVE GCD(_, _)
GCD(a, b) == IF b = 0 THEN a ELSE GCD(b, a % b)

\* the rational n/d in lowest terms with a positive denominator (d # 0)
Rat(n, d) ==
    LET s == IF d < 0 THEN -1 ELSE 1
        g == GCD(Abs(n), Abs(d))
    IN  [n |-> (s * n) \div g, d |-> (s * d) \div g]

Zero == Rat(0, 1)
One == Rat(1, 1)
FromInt(k) == Rat(k, 1)

RAdd(a, b) == Rat(a.n * b.d + b.n * a.d, a.d * b.d)
RSub(a, b) == Rat(a.n * b.d - b.n * a.d, a.d * b.d)
RMul(a, b) == Rat(a.n * b.n, a.d * b.d)
\* b # 0
RDiv(a, b) == Rat(a.n * b.d, a.d * b.n)

\* IEEE not-a-number, the value of 0 * inf
NaN == [n |-> 0, d |-> 0]

RECURSIVE RSum(_)
RSum(s) == IF s = <<>> THEN Zero ELSE RAdd(Head(s), RSum(Tail(s)))

-----------------------------------------------------------------------------
(* gradients.py: perturb                                                   *)

\* eps: Union[float, np.ndarray], a scalar or one step per feature
ScalarEps(e) == [kind |-> "scalar", v |-> e]
ArrayEps(es) == [kind |-> "array", v |-> es]

\* numpy broadcasting of eps against the last (feature) axis
EpsAt(eps, c) == IF eps.kind = "scalar" THEN eps.v ELSE eps.v[c]

\* np.eye(dim)[r][c], rows and columns counted from 1
Eye(r, c) == IF r = c THEN One ELSE Zero

\* np.ones((dim, dim))[r][c]
Ones(r, c) == One

\* np.tile(M, (n, 1)): row k of the tiling is row TileRow(k, dim) of the dim-row matrix M
\* variant: np.repeat in place of np.tile
TileRowRepeated(k, dim) == ((k - 1) \div dim) + 1
TileRow(k, dim) == ((k - 1) % dim) + 1

\* np.repeat(X, dim, axis=0): row k of the result is row RepeatRow(k, dim) of X
RepeatRow(k, dim) == ((k - 1) \div dim) + 1

\* (np.eye(dim) * eps)[r][c]
EyeTimesEps(r, c, eps) == RMul(Eye(r, c), EpsAt(eps, c))

\* ((np.eye(dim) - np.ones((dim, dim))) * eps_n)[r][c], with eps_n = eps / (dim - 1)
ProbaCorrection(r, c, dim, eps) ==
    RMul(RSub(Eye(r, c), Ones(r, c)), RDiv(EpsAt(eps, c), FromInt(dim - 1)))

\* pert[k][c] of the code, pert being (N*F) x F
Pert(k, c, dim, eps, proba) ==
    IF proba
    THEN RAdd(EyeTimesEps(TileRow(k, dim), c, eps),
              ProbaCorrection(TileRow(k, dim), c, dim, eps))
    ELSE EyeTimesEps(TileRow(k, dim), c, eps)

\* perturb(X, eps, proba) for a batch X of N >= 1 rows of dim features.
\* With proba and dim = 1 the code divides by dim - 1 = 0: a Python float eps
\* raises ZeroDivisionError, an array eps gives inf and then 0 * inf = nan.
perturb(X, eps, proba) ==
    LET N == Len(X)
        dim == Len(X[1])
    IN  IF proba /\ dim = 1
        THEN IF eps.kind = "scalar"
             THEN [outcome |-> "ZeroDivisionError", pos |-> <<>>, neg |-> <<>>]
             ELSE [outcome |-> "ok",
                   pos |-> [k \in 1..N |-> <<NaN>>],
                   neg |-> [k \in 1..N |-> <<NaN>>]]
        ELSE [outcome |-> "ok",
              pos |-> [k \in 1..(N * dim) |-> [c \in 1..dim |->
                          RAdd(X[RepeatRow(k, dim)][c], Pert(k, c, dim, eps, proba))]],
              neg |-> [k \in 1..(N * dim) |-> [c \in 1..dim |->
                          RSub(X[RepeatRow(k, dim)][c], Pert(k, c, dim, eps, proba))]]]

-----------------------------------------------------------------------------
(* gradients.py: num_grad_batch                                            *)

RECURSIVE RPow(_, _)
RPow(x, k) == IF k = 0 THEN One ELSE RMul(x, RPow(x, k - 1))

\* The prediction function handed to num_grad_batch, a black box to the code.
\* func = [P, w, deg]: P outputs per row x, output p (from 1) being
\*    sum_j (w[j] + (p - 1)) * x[j]^deg  +  sum(args);
\* with P = 1 and deg = 1 this is the linear function f(x) = w . x (+ args).
FuncOut(func, x, args, p) ==
    RAdd(RSum([j \in 1..Len(x) |->
                 RMul(RAdd(func.w[j], FromInt(p - 1)), RPow(x[j], func.deg))]),
         RSum(args))

\* func(B, *args): the predictions for the rows of B, of shape (rows, P), as
\* the flat row-major sequence that reshape(-1, 1) makes of them
ApplyFunc(func, B, args) ==
    [q \in 1..(Len(B) * func.P) |->
        FuncOut(func, B[((q - 1) \div func.P) + 1], args, ((q - 1) % func.P) + 1)]

\* np.concatenate([X_pert_pos, X_pert_neg], axis=0)
\* variant: the negative perturbations first
XPertSwapped(X_pert_pos, X_pert_neg) == X_pert_neg \o X_pert_pos
XPert(X_pert_pos, X_pert_neg) == X_pert_pos \o X_pert_neg

\* numpy's broadcasting rule for two axes of lengths m and n: equal, or one
\* of them 1; the operation raises ValueError otherwise
Broadcastable(m, n) == m = n \/ m = 1 \/ n = 1

\* a - b for arrays of shapes (Len(a), 1) and (Len(b), 1) that broadcast
BroadcastSub(a, b) ==
    IF Len(a) = Len(b) THEN [k \in 1..Len(a) |-> RSub(a[k], b[k])]
    ELSE IF Len(a) = 1 THEN [k \in 1..Len(b) |-> RSub(a[1], b[k])]
    ELSE [k \in 1..Len(a) |-> RSub(a[k], b[1])]

\* np.reshape(np.reshape(g, (N, -1)), (N, Q, -1), order='F') of the flat g,
\* with R = Len(g) / (N * Q), as the flat row-major data of the (N, Q, R)
\* result.  The inner reshape puts g[i*M + m] at [i][m], M = Q * R; order='F'
\* reads and writes with the first index running fastest, so the element at
\* [i][q][r] of the result is the element at [i][q + Q*r] of the (N, M) array.
ReshapeF(g, N, Q, R) ==
    [l \in 1..(N * Q * R) |->
        LET i == (l - 1) \div (Q * R)
            q == ((l - 1) \div R) % Q
            r == (l - 1) % R
        IN  g[i * (Q * R) + (q + Q * r) + 1]]

\* (2 * eps), broadcast to feature r of R features (0-based r)
\* variant: eps in place of 2 * eps
GradDenominatorForward(eps, r) == EpsAt(eps, r + 1)
GradDenominator(eps, r) == RMul(FromInt(2), EpsAt(eps, r + 1))

\* num_grad_batch(func, X, args, eps) for a batch X of N >= 1 rows of D
\* features: the invocations of func it makes, in order, and what it returns
\* or raises.  shape and grad are the shape of the returned array and its
\* flat row-major data.
num_grad_batch(func, X, args, eps) ==
    LET batch_size == Len(X)
        D == Len(X[1])
        preds == ApplyFunc(func, X, args)
        predsShape == <<Len(preds), 1>>
        pp == perturb(X, eps, FALSE)
        X_pert == XPert(pp.pos, pp.neg)
        preds_concat == ApplyFunc(func, X_pert, args)
        n_pert == Len(pp.pos)
        pos_part == SubSeq(preds_concat, 1, n_pert)
        neg_part == SubSeq(preds_concat, n_pert + 1, Len(preds_concat))
        grad_numerator == BroadcastSub(pos_part, neg_part)
        Q == predsShape[2]
        R == Len(grad_numerator) \div (batch_size * Q)
        made == << [X |-> X, args |-> args, out |-> preds],
                   [X |-> X_pert, args |-> args, out |-> preds_concat] >>
        raised == [calls |-> made,
                   ret |-> [outcome |-> "ValueError", shape |-> <<>>, grad |-> <<>>]]
    IN  IF ~Broadcastable(Len(pos_part), Len(neg_part)) THEN raised
        ELSE IF Len(grad_numerator) % (batch_size * Q) # 0 THEN raised
        ELSE IF eps.kind = "array" /\ ~Broadcastable(R, D) THEN raised
        ELSE IF batch_size * Q * (IF R = 1 /\ eps.kind = "array" THEN D ELSE R)
                    # predsShape[1] * predsShape[2] * D THEN raised
        ELSE [calls |-> made,
              ret |-> [outcome |-> "ok",
                       shape |-> predsShape \o <<D>>,
                       grad |-> [l \in 1..(predsShape[1] * predsShape[2] * D) |->
                                   RDiv(ReshapeF(grad_numerator, batch_size, Q, R)
                                            [IF R = 1 /\ eps.kind = "array"
                                             THEN ((l - 1) \div D) + 1 ELSE l],
                                        GradDenominator(eps, (l - 1) % D))]]]

-----------------------------------------------------------------------------
(* Python dicts: functions whose domain is the set of keys.                *)

\* d[k] = v
\* variant: d.setdefault(k, v), which keeps an entry that is not None
DictSetDefault(d, k, v) ==
    [x \in DOMAIN d \cup {k} |-> IF x = k /\ (k \notin DOMAIN d \/ d[k] = None) THEN v ELSE d[x]]
DictSet(d, k, v) == [x \in DOMAIN d \cup {k} |-> IF x = k THEN v ELSE d[x]]

\* an attribute that was never set
Unset == "unset"

-----------------------------------------------------------------------------
(* wrappers.py: blackbox_wrapper, get_blackbox_wrapper                     *)

\* blackbox_wrapper(framework)(func) on the registry reg: the registry it
\* leaves, and what it returns or raises.  The assignment to the dict comes
\* first and cannot raise AttributeError; the check of the name comes after.
register_wrapper(reg, framework, func) ==
    IF framework \notin {"pytorch", "tensorflow"}
    THEN [reg |-> DictSet(reg, framework, func), outcome |-> "ValueError", value |-> None]
    ELSE [reg |-> DictSet(reg, framework, func), outcome |-> "ok", value |-> func]

\* get_blackbox_wrapper(framework): blackbox_wrappers[framework]
\* variant: blackbox_wrappers.get(framework)
get_blackbox_wrapper_dictget(reg, framework) ==
    IF framework \in DOMAIN reg
    THEN [outcome |-> "ok", value |-> reg[framework]]
    ELSE [outcome |-> "ok", value |-> None]
get_blackbox_wrapper(reg, framework) ==
    IF framework \in DOMAIN reg
    THEN [outcome |-> "ok", value |-> reg[framework]]
    ELSE [outcome |-> "KeyError", value |-> None]

-----------------------------------------------------------------------------
(* gradients.py: numerical_gradient                                        *)

\* numerical_gradient(framework)(func) on the registry reg:
\* numerical_gradients[framework].append(func), the lookup raising KeyError
\* for a name that is not a key
\* variant: numerical_gradients.setdefault(framework, []).append(func)
numerical_gradient_setdefault(reg, framework, func) ==
    IF framework \in DOMAIN reg
    THEN [reg |-> [reg EXCEPT ![framework] = Append(@, func)], outcome |-> "ok", value |-> func]
    ELSE [reg |-> DictSet(reg, framework, <<func>>), outcome |-> "ok", value |-> func]
numerical_gradient(reg, framework, func) ==
    IF framework \in DOMAIN reg
    THEN [reg |-> [reg EXCEPT ![framework] = Append(@, func)], outcome |-> "ok", value |-> func]
    ELSE [reg |-> reg, outcome |-> "KeyError", value |-> None]

-----------------------------------------------------------------------------
(* wrappers.py: Predictor                                                  *)

\* what a predict or transform method does to its argument
Apply(fn, x) ==
    CASE fn = "identity" -> x
      [] fn = "negate" -> 0 - x
      [] fn = "double" -> 2 * x
      [] fn = "increment" -> x + 1

\* hasattr(clf, 'predict')
HasPredict(clf) == clf.predict # Unset

\* preprocessor=None, the default
NoPreprocessor == [is_none |-> TRUE, truthy |-> FALSE, transform |-> Unset]

\* `if self.preprocessor:` -- the truth value Python gives the object: False
\* for None, True for a plain object, and False for an object whose __bool__
\* returns False or whose __len__ returns 0
Truthy(preprocessor) == preprocessor.truthy

\* Predictor(clf, preprocessor): the object constructed, or the error raised
Predictor_init(clf, preprocessor) ==
    IF ~HasPredict(clf)
    THEN [outcome |-> "AttributeError"]
    ELSE [outcome |-> "ok",
          value |-> [clf |-> clf, predict_fcn |-> clf.predict, preprocessor |-> preprocessor]]

\* Predictor.__call__(self, x): the methods invoked, in order, and the result
Predictor_call(self, x) ==
    IF Truthy(self.preprocessor)
    THEN [calls |-> << [fn |-> "transform", arg |-> x],
                       [fn |-> "predict", arg |-> Apply(self.preprocessor.transform, x)] >>,
          ret |-> [outcome |-> "ok",
                   value |-> Apply(self.predict_fcn, Apply(self.preprocessor.transform, x))]]
    ELSE [calls |-> << [fn |-> "predict", arg |-> x] >>,
          ret |-> [outcome |-> "ok", value |-> Apply(self.predict_fcn, x)]]

-----------------------------------------------------------------------------
(* Inputs.                                                                 *)

XVals == {Zero, One}

\* the shapes (N, D) of a batch
Shapes == {s \in (1..MaxCells) \X (1..MaxCells) : s[1] * s[2] <= MaxCells}

Batches == UNION {[1..s[1] -> [1..s[2] -> XVals]] : s \in Shapes}

\* nonzero steps
EpsVals == {Rat(-1, 1), Rat(1, 2), Rat(2, 1)}

EpsInputs(dim) ==
    {ScalarEps(e) : e \in EpsVals} \cup {ArrayEps(es) : es \in [1..dim -> EpsVals]}

\* the framework names the registries are asked about: the two known ones, and two others
FrameworkNames == {"pytorch", "tensorflow", "keras", "torch"}

\* the callables that get decorated
Callables == {"f1", "f2"}

\* classifier objects, one of them without a predict attribute
Clfs == {[predict |-> "identity"], [predict |-> "negate"], [predict |-> Unset]}

\* preprocessors: none, or an object with a transform method that Python
\* counts as true (a plain object) or as false (__bool__ False, __len__ 0)
Preprocessors ==
    {NoPreprocessor}
        \cup [is_none : {FALSE}, truthy : BOOLEAN, transform : {"double", "increment"}]

\* arguments of a Predictor call
PredictorInputs == {-1, 0, 2}

NoCall == [op |-> "none"]
NoRet == [outcome |-> "none"]

-----------------------------------------------------------------------------
(* The perturbation generator called on its own.                           *)

InitIdle ==
    /\ blackbox_wrappers = [f \in {"pytorch", "tensorflow"} |-> None]
    /\ numerical_gradients = [f \in {"pytorch", "tensorflow"} |-> <<>>]
    /\ attrs = [c \in Callables |-> [framework |-> Unset, optimizer |-> Unset]]
    /\ lastReg = [f \in FrameworkNames |-> None]
    /\ predictors = <<>>
    /\ call = NoCall
    /\ ret = NoRet
    /\ calls = <<>>

CallPerturb(X, eps, proba) ==
    /\ call' = [op |-> "perturb", X |-> X, eps |-> eps, proba |-> proba]
    /\ ret' = perturb(X, eps, proba)
    /\ UNCHANGED <<blackbox_wrappers, numerical_gradients, attrs, lastReg, predictors, calls>>

\* the caller takes the result; the next call starts afresh
Return ==
    /\ call # NoCall
    /\ call' = NoCall
    /\ ret' = NoRet
    /\ calls' = <<>>
    /\ UNCHANGED <<blackbox_wrappers, numerical_gradients, attrs, lastReg, predictors>>

NextPerturb ==
    \/ /\ call = NoCall
       /\ \E X \in Batches : \E eps \in EpsInputs(Len(X[1])) : \E proba \in BOOLEAN :
            CallPerturb(X, eps, proba)
    \/ Return

SpecPerturb == InitIdle /\ [][NextPerturb]_vars

-----------------------------------------------------------------------------
(* The batched gradient estimator.                                         *)

WVals == {FromInt(-1), FromInt(2)}

\* weight vectors a, 2a, 3a, ...: a different weight for every feature
Weights(dim) == {[j \in 1..dim |-> RMul(a, FromInt(j))] : a \in WVals}

Funcs(dim) == [P : 1..MaxP, w : Weights(dim), deg : {1, 2}]

ArgsInputs == {<<>>, <<One>>}

\* a scalar step, or a per-feature array of steps e, 2e, 3e, ...
GradEpsInputs(dim) ==
    {ScalarEps(e) : e \in EpsVals}
        \cup {ArrayEps([j \in 1..dim |-> RMul(e, FromInt(j))]) : e \in {Rat(1, 2)}}

CallNumGradBatch(func, X, args, eps) ==
    LET r == num_grad_batch(func, X, args, eps)
    IN  /\ call' = [op |-> "num_grad_batch", func |-> func, X |-> X, args |-> args, eps |-> eps]
        /\ ret' = r.ret
        /\ calls' = r.calls
        /\ UNCHANGED <<blackbox_wrappers, numerical_gradients, attrs, lastReg, predictors>>

NextNumGrad ==
    \/ /\ call = NoCall
       /\ \E X \in Batches : \E func \in Funcs(Len(X[1])) :
            \E args \in ArgsInputs : \E eps \in GradEpsInputs(Len(X[1])) :
                CallNumGradBatch(func, X, args, eps)
    \/ Return

SpecNumGrad == InitIdle /\ [][NextNumGrad]_vars

-----------------------------------------------------------------------------
(* The registry of black-box wrappers.                                     *)

CallBlackboxWrapper(framework, func) ==
    LET r == register_wrapper(blackbox_wrappers, framework, func)
    IN  /\ call' = [op |-> "blackbox_wrapper", framework |-> framework, func |-> func,
                    before |-> blackbox_wrappers]
        /\ attrs' = [attrs EXCEPT ![func].framework = framework]
        /\ blackbox_wrappers' = r.reg
        /\ ret' = [outcome |-> r.outcome, value |-> r.value]
        /\ lastReg' = IF r.outcome = "ok" THEN [lastReg EXCEPT ![framework] = func] ELSE lastReg
        /\ UNCHANGED <<numerical_gradients, predictors, calls>>

CallGetBlackboxWrapper(framework) ==
    /\ call' = [op |-> "get_blackbox_wrapper", framework |-> framework,
                before |-> blackbox_wrappers]
    /\ ret' = get_blackbox_wrapper(blackbox_wrappers, framework)
    /\ UNCHANGED <<blackbox_wrappers, numerical_gradients, attrs, lastReg, predictors, calls>>

NextWrappers ==
    \/ \E framework \in FrameworkNames : \E func \in Callables :
            CallBlackboxWrapper(framework, func)
    \/ \E framework \in FrameworkNames : CallGetBlackboxWrapper(framework)

SpecWrappers == InitIdle /\ [][NextWrappers]_vars

-----------------------------------------------------------------------------
(* The registry of numerical gradient functions.                           *)

CallNumericalGradient(framework, func) ==
    LET r == numerical_gradient(numerical_gradients, framework, func)
    IN  /\ \A f \in DOMAIN numerical_gradients : Len(numerical_gradients[f]) < MaxGrads
        /\ call' = [op |-> "numerical_gradient", framework |-> framework, func |-> func,
                    before |-> numerical_gradients]
        /\ attrs' = [attrs EXCEPT ![func].optimizer = framework]
        /\ numerical_gradients' = r.reg
        /\ ret' = [outcome |-> r.outcome, value |-> r.value]
        /\ UNCHANGED <<blackbox_wrappers, lastReg, predictors, calls>>

NextGradRegistry ==
    \E framework \in FrameworkNames : \E func \in Callables :
        CallNumericalGradient(framework, func)

SpecGradRegistry == InitIdle /\ [][NextGradRegistry]_vars

-----------------------------------------------------------------------------
(* Predictor objects.                                                      *)

ConstructPredictor(clf, preprocessor) ==
    LET r == Predictor_init(clf, preprocessor)
    IN  /\ Len(predictors) < MaxPredictors
        /\ call' = [op |-> "Predictor", clf |-> clf, preprocessor |-> preprocessor,
                    before |-> predictors]
        /\ predictors' = IF r.outcome = "ok" THEN Append(predictors, r.value) ELSE predictors
        /\ ret' = r
        /\ calls' = <<>>
        /\ UNCHANGED <<blackbox_wrappers, numerical_gradients, attrs, lastReg>>

CallPredictor(k, x) ==
    LET r == Predictor_call(predictors[k], x)
    IN  /\ call' = [op |-> "Predictor.__call__", self |-> k, x |-> x, before |-> predictors]
        /\ ret' = r.ret
        /\ calls' = r.calls
        /\ UNCHANGED <<blackbox_wrappers, numerical_gradients, attrs, lastReg, predictors>>

NextPredictor ==
    \/ \E clf \in Clfs : \E preprocessor \in Preprocessors : ConstructPredictor(clf, preprocessor)
    \/ \E k \in 1..Len(predictors) : \E x \in PredictorInputs : CallPredictor(k, x)

SpecPredictor == InitIdle /\ [][NextPredictor]_vars

-----------------------------------------------------------------------------
(* Properties of perturb.                                                  *)

\* the row of X_pert_pos / X_pert_neg that belongs to instance i, feature j
\* (both counted from 1): row i*D + j of the code's 0-based numbering
RowOf(i, j, D) == (i - 1) * D + j

PerturbCalled == call.op = "perturb"

\* C1: perturb(X, eps, proba=False) with a nonzero scalar eps returns two
\* batches of exactly N*D rows; row i*D+j of X_pert_pos is instance i with
\* eps added to feature j only, row i*D+j of X_pert_neg is instance i with
\* eps subtracted from feature j only, and their difference is 2*eps at
\* feature j and 0 at every other feature.
C1_PerturbRows ==
    (PerturbCalled /\ ~call.proba /\ call.eps.kind = "scalar") =>
        LET X == call.X
            N == Len(X)
            D == Len(X[1])
            e == call.eps.v
        IN  /\ ret.outcome = "ok"
            /\ Len(ret.pos) = N * D
            /\ Len(ret.neg) = N * D
            /\ \A i \in 1..N : \A j \in 1..D : \A c \in 1..D :
                /\ ret.pos[RowOf(i, j, D)][c] = IF c = j THEN RAdd(X[i][c], e) ELSE X[i][c]
                /\ ret.neg[RowOf(i, j, D)][c] = IF c = j THEN RSub(X[i][c], e) ELSE X[i][c]
                /\ RSub(ret.pos[RowOf(i, j, D)][c], ret.neg[RowOf(i, j, D)][c])
                       = IF c = j THEN RMul(FromInt(2), e) ELSE Zero

\* a batch of two different instances with two features each was perturbed
C1_Witness ==
    /\ PerturbCalled /\ ~call.proba /\ call.eps.kind = "scalar"
    /\ Len(call.X) = 2 /\ Len(call.X[1]) = 2
    /\ call.X[1] # call.X[2]
    /\ ret.outcome = "ok"
    /\ ret.pos[RowOf(2, 1, 2)] # ret.pos[RowOf(1, 1, 2)]

\* C2: perturb(X, eps, proba=True) with D >= 2 features preserves row sums
\* for a scalar eps and for a per-feature array eps: every row i*D+j of
\* X_pert_pos and of X_pert_neg sums to the sum of instance i of X.
C2_ProbaRowSums ==
    (PerturbCalled /\ call.proba /\ Len(call.X[1]) >= 2) =>
        LET X == call.X
            N == Len(X)
            D == Len(X[1])
        IN  /\ ret.outcome = "ok"
            /\ \A i \in 1..N : \A j \in 1..D :
                /\ RSum(ret.pos[RowOf(i, j, D)]) = RSum(X[i])
                /\ RSum(ret.neg[RowOf(i, j, D)]) = RSum(X[i])

\* The part of C2 the code does satisfy: with a scalar eps the rows keep their sums.
ProbaRowSumsScalarEps ==
    (PerturbCalled /\ call.proba /\ Len(call.X[1]) >= 2 /\ call.eps.kind = "scalar") =>
        /\ ret.outcome = "ok"
        /\ \A i \in 1..Len(call.X) : \A j \in 1..Len(call.X[1]) :
            /\ RSum(ret.pos[RowOf(i, j, Len(call.X[1]))]) = RSum(call.X[i])
            /\ RSum(ret.neg[RowOf(i, j, Len(call.X[1]))]) = RSum(call.X[i])

-----------------------------------------------------------------------------
(* Properties of num_grad_batch.                                           *)

NumGradCalled == call.op = "num_grad_batch"

\* entry [i, p, j] (each from 1) of a row-major array of shape (N, P, D)
EntryOf(i, p, j, P, D) == ((i - 1) * P + (p - 1)) * D + j

\* the row x with e added to feature j
Shifted(x, j, e) == [c \in 1..Len(x) |-> IF c = j THEN RAdd(x[c], e) ELSE x[c]]

\* C3: for a linear function f(x) = w . x with one output per instance, any
\* batch X of N instances with D features and any nonzero scalar eps,
\* num_grad_batch returns a tensor whose entry for instance i and feature j
\* equals w[j], whatever X and eps are.
C3_LinearGradient ==
    (NumGradCalled /\ call.func.P = 1 /\ call.func.deg = 1 /\ call.eps.kind = "scalar") =>
        LET N == Len(call.X)
            D == Len(call.X[1])
        IN  /\ ret.outcome = "ok"
            /\ ret.shape = <<N, 1, D>>
            /\ \A i \in 1..N : \A j \in 1..D :
                ret.grad[EntryOf(i, 1, j, 1, D)] = call.func.w[j]

\* the gradient of a linear function was taken on a batch of two different
\* instances with two features each
C3_Witness ==
    /\ NumGradCalled /\ call.func.P = 1 /\ call.func.deg = 1 /\ call.eps.kind = "scalar"
    /\ Len(call.X) = 2 /\ Len(call.X[1]) = 2
    /\ call.X[1] # call.X[2]
    /\ ret.outcome = "ok"
    /\ ret.grad[EntryOf(2, 1, 1, 1, 2)] # ret.grad[EntryOf(2, 1, 2, 1, 2)]

\* C4: for a function returning predictions of shape (N, P) with any number
\* of output classes P >= 1 and a scalar eps, num_grad_batch returns a tensor
\* of shape (N, P, D) whose entry [i, p, j] is the central difference
\* (func(x_i + eps*e_j)[p] - func(x_i - eps*e_j)[p]) / (2*eps).
C4_CentralDifferences ==
    (NumGradCalled /\ call.eps.kind = "scalar") =>
        LET N == Len(call.X)
            D == Len(call.X[1])
            P == call.func.P
            e == call.eps.v
        IN  /\ ret.outcome = "ok"
            /\ ret.shape = <<N, P, D>>
            /\ \A i \in 1..N : \A p \in 1..P : \A j \in 1..D :
                ret.grad[EntryOf(i, p, j, P, D)] =
                    RDiv(RSub(FuncOut(call.func, Shifted(call.X[i], j, e), call.args, p),
                              FuncOut(call.func, Shifted(call.X[i], j, RSub(Zero, e)), call.args, p)),
                         RMul(FromInt(2), e))

\* The part of C4 the code does satisfy: a function with one output per instance.
CentralDifferencesSingleOutput ==
    (NumGradCalled /\ call.eps.kind = "scalar" /\ call.func.P = 1) => C4_CentralDifferences

\* With two or more outputs per instance every call raises.
MultiOutputRaises ==
    (NumGradCalled /\ call.func.P >= 2) => ret.outcome = "ValueError"

\* C9: one call of num_grad_batch on a batch of N instances with D features
\* invokes func exactly twice: first on the unperturbed batch X, then on one
\* batch of 2*N*D rows whose first N*D rows are the positive and whose last
\* N*D rows are the negative perturbations that perturb makes with
\* proba=False; both calls get the same extra args; and the gradient values
\* returned are computed from the second call's result alone.
C9_TwoCalls ==
    NumGradCalled =>
        LET N == Len(call.X)
            D == Len(call.X[1])
            pp == perturb(call.X, call.eps, FALSE)
        IN  /\ Len(calls) = 2
            /\ calls[1].X = call.X
            /\ Len(calls[1].X) = N
            /\ Len(calls[2].X) = 2 * N * D
            /\ SubSeq(calls[2].X, 1, N * D) = pp.pos
            /\ SubSeq(calls[2].X, N * D + 1, 2 * N * D) = pp.neg
            /\ calls[1].args = call.args
            /\ calls[2].args = call.args
            /\ ret.outcome = "ok" =>
                \A i \in 1..N : \A j \in 1..D :
                    ret.grad[EntryOf(i, 1, j, 1, D)] =
                        RDiv(RSub(calls[2].out[RowOf(i, j, D)],
                                  calls[2].out[N * D + RowOf(i, j, D)]),
                             RMul(FromInt(2), EpsAt(call.eps, j)))

\* a gradient of a nonlinear function was returned for a batch of two
\* instances with two features each, extra args given
C9_Witness ==
    /\ NumGradCalled
    /\ Len(call.X) = 2 /\ Len(call.X[1]) = 2
    /\ call.func.deg = 2
    /\ call.args # <<>>
    /\ Len(calls) = 2
    /\ calls[1].out # SubSeq(calls[2].out, 1, 2)
    /\ ret.outcome = "ok"

-----------------------------------------------------------------------------
(* Properties of the registries.                                           *)

Known == {"pytorch", "tensorflow"}

RegisterCalled == call.op = "blackbox_wrapper"
LookupCalled == call.op = "get_blackbox_wrapper"
NumericalGradientCalled == call.op = "numerical_gradient"

\* C5: registering a black-box wrapper under a name outside 'pytorch',
\* 'tensorflow' raises a value error and leaves blackbox_wrappers exactly as
\* it was before the call, so that the registry's keys are always exactly
\* 'pytorch' and 'tensorflow'.
C5_UnknownNameRejected ==
    /\ DOMAIN blackbox_wrappers = Known
    /\ (RegisterCalled /\ call.framework \notin Known) =>
            /\ ret.outcome = "ValueError"
            /\ blackbox_wrappers = call.before

\* The part of C5 the code does satisfy: the value error is raised.
UnknownNameRaises ==
    (RegisterCalled /\ call.framework \notin Known) => ret.outcome = "ValueError"

\* C6: for f in 'pytorch', 'tensorflow', get_blackbox_wrapper(f) returns None
\* if no registration under f has happened yet and otherwise the callable most
\* recently registered under f; each registration under f succeeds, overwrites
\* the entry of f and leaves the entry of the other framework alone.
C6_LastRegisteredReturned ==
    /\ \A f \in Known :
            get_blackbox_wrapper(blackbox_wrappers, f) = [outcome |-> "ok", value |-> lastReg[f]]
    /\ (LookupCalled /\ call.framework \in Known) =>
            ret = [outcome |-> "ok", value |-> lastReg[call.framework]]
    /\ (RegisterCalled /\ call.framework \in Known) =>
            /\ ret = [outcome |-> "ok", value |-> call.func]
            /\ blackbox_wrappers[call.framework] = call.func
            /\ \A g \in Known \ {call.framework} : blackbox_wrappers[g] = call.before[g]

\* f2 is returned for 'pytorch' after f1 was registered under it as well
C6_Witness ==
    /\ LookupCalled /\ call.framework = "pytorch"
    /\ ret = [outcome |-> "ok", value |-> "f2"]
    /\ attrs["f1"].framework = "pytorch"
    /\ lastReg["tensorflow"] = None

\* C7: numerical_gradient(framework) accepts any string: for every name,
\* known or not, decorating a callable succeeds, returns the callable and
\* appends it to the list stored under that name, creating the entry when the
\* name is not yet a key.
C7_AnyNameAccepted ==
    NumericalGradientCalled =>
        /\ ret = [outcome |-> "ok", value |-> call.func]
        /\ call.framework \in DOMAIN numerical_gradients
        /\ numerical_gradients[call.framework] =
                Append(IF call.framework \in DOMAIN call.before
                       THEN call.before[call.framework] ELSE <<>>, call.func)

\* C7 as amended: for 'pytorch' and 'tensorflow' decorating succeeds, returns
\* the callable and appends it to that name's list; for any other name it
\* raises KeyError, appends nothing and creates no entry.  Either way the
\* callable's optimizer attribute is set to the name.
C7_KnownNamesOnly ==
    NumericalGradientCalled =>
        /\ attrs[call.func].optimizer = call.framework
        /\ IF call.framework \in Known
           THEN /\ ret = [outcome |-> "ok", value |-> call.func]
                /\ numerical_gradients =
                        [call.before EXCEPT ![call.framework] = Append(@, call.func)]
           ELSE /\ ret.outcome = "KeyError"
                /\ numerical_gradients = call.before
                /\ call.framework \notin DOMAIN numerical_gradients

\* 'keras' is refused after a callable was appended under 'tensorflow'
C7_Witness ==
    /\ NumericalGradientCalled /\ call.framework = "keras"
    /\ ret.outcome = "KeyError"
    /\ Len(numerical_gradients["tensorflow"]) >= 1

\* C8: get_blackbox_wrapper(framework) is a pure lookup: for every name for
\* which no wrapper was ever successfully registered, known or not, it returns
\* None without raising, and it always leaves blackbox_wrappers unchanged.
C8_LookupReturnsNone ==
    LookupCalled =>
        /\ blackbox_wrappers = call.before
        /\ lastReg[call.framework] = None => ret = [outcome |-> "ok", value |-> None]

\* C8 as amended: get_blackbox_wrapper always leaves blackbox_wrappers
\* unchanged; for 'pytorch' and 'tensorflow' with no registration yet it
\* returns None without raising; for a name that is not a key of the registry
\* it raises KeyError.
C8_LookupOrKeyError ==
    LookupCalled =>
        /\ blackbox_wrappers = call.before
        /\ (call.framework \in Known /\ lastReg[call.framework] = None) =>
                ret = [outcome |-> "ok", value |-> None]
        /\ call.framework \notin DOMAIN call.before => ret.outcome = "KeyError"

\* 'keras' was looked up and is no key, while 'pytorch' holds a wrapper
C8_Witness ==
    /\ LookupCalled /\ call.framework = "keras"
    /\ "keras" \notin DOMAIN blackbox_wrappers
    /\ ret.outcome = "KeyError"
    /\ lastReg["pytorch"] # None
    /\ lastReg["tensorflow"] = None

-----------------------------------------------------------------------------
(* Properties of Predictor.                                                *)

\* C10: constructing a Predictor raises an attribute error, and creates no
\* Predictor, exactly when the wrapped object has no predict attribute; a
\* Predictor called with x returns clf.predict(preprocessor.transform(x)) when
\* a preprocessor was supplied, transform applied first and then predict, each
\* once, and clf.predict(x) when none was supplied.
C10_Predictor ==
    /\ call.op = "Predictor" =>
            /\ ret.outcome = "AttributeError" <=> call.clf.predict = Unset
            /\ ret.outcome = "AttributeError" => predictors = call.before
            /\ ret.outcome # "AttributeError" =>
                    /\ ret.outcome = "ok"
                    /\ Len(predictors) = Len(call.before) + 1
                    /\ SubSeq(predictors, 1, Len(call.before)) = call.before
                    /\ predictors[Len(predictors)].clf = call.clf
                    /\ predictors[Len(predictors)].preprocessor = call.preprocessor
    /\ call.op = "Predictor.__call__" =>
            LET self == predictors[call.self]
            IN  /\ ret.outcome = "ok"
                /\ predictors = call.before
                /\ IF self.preprocessor # NoPreprocessor
                   THEN /\ ret.value = Apply(self.clf.predict,
                                             Apply(self.preprocessor.transform, call.x))
                        /\ Len(calls) = 2
                        /\ calls[1] = [fn |-> "transform", arg |-> call.x]
                        /\ calls[2] = [fn |-> "predict",
                                       arg |-> Apply(self.preprocessor.transform, call.x)]
                   ELSE /\ ret.value = Apply(self.clf.predict, call.x)
                        /\ calls = << [fn |-> "predict", arg |-> call.x] >>

\* The part of C10 the code does satisfy: the construction, and the call with
\* transform and then predict when the preprocessor counts as true, predict
\* alone when it is None.
PredictorCallTruthyOrNone ==
    (\/ call.op = "Predictor"
     \/ /\ call.op = "Predictor.__call__"
        /\ (predictors[call.self].preprocessor.truthy
                \/ predictors[call.self].preprocessor = NoPreprocessor)) =>
        C10_Predictor

\* What the code does with a supplied preprocessor that counts as false: it
\* skips transform and returns clf.predict(x).
FalsyPreprocessorSkipped ==
    (call.op = "Predictor.__call__" /\ ~predictors[call.self].preprocessor.truthy) =>
        /\ calls = << [fn |-> "predict", arg |-> call.x] >>
        /\ ret = [outcome |-> "ok", value |-> Apply(predictors[call.self].clf.predict, call.x)]

====
